---- MODULE Spec2Model ----
(***************************************************************************)
(* Model of app/routes/index.tsx of remix-basic-todo: the validation       *)
(* helpers, the `action` mutation dispatcher, and the client-side row      *)
(* state (one fetcher per TaskItem, one for AddTaskForm, and the single    *)
(* editingId held by Index).                                               *)
(*                                                                         *)
(* A text value is a sequence of one-character strings, so that length,    *)
(* parseInt and toString are computed and not assumed.                     *)
(***************************************************************************)
EXTENDS Integers, Sequences, FiniteSets, TLC

\* ---------------------------------------------------------------- bounds
MaxTasks == 2
MaxNameLen == 1
MaxIdLen == 2
MaxSubmits == 2

\* ------------------------------------------------------------------ text
RECURSIVE SeqsUpTo(_, _)
SeqsUpTo(S, n) ==
  IF n = 0 THEN {<<>>}
  ELSE LET shorter == SeqsUpTo(S, n - 1)
       IN shorter \cup {Append(s, c) : s \in {t \in shorter : Len(t) = n - 1}, c \in S}

DigitChars == {"0", "1", "2", "3", "4", "5", "6", "7", "8", "9"}

DigitVal(c) ==
  CASE c = "0" -> 0 [] c = "1" -> 1 [] c = "2" -> 2 [] c = "3" -> 3
    [] c = "4" -> 4 [] c = "5" -> 5 [] c = "6" -> 6 [] c = "7" -> 7
    [] c = "8" -> 8 [] c = "9" -> 9

DigitChar(d) ==
  CASE d = 0 -> "0" [] d = 1 -> "1" [] d = 2 -> "2" [] d = 3 -> "3"
    [] d = 4 -> "4" [] d = 5 -> "5" [] d = 6 -> "6" [] d = 7 -> "7"
    [] d = 8 -> "8" [] d = 9 -> "9"

IsWhiteSpace(c) == c \in {" ", "\t", "\n"}

RECURSIVE NatToString(_)
NatToString(n) ==
  IF n < 10 THEN <<DigitChar(n)>>
  ELSE Append(NatToString(n \div 10), DigitChar(n % 10))

\* Number.prototype.toString() of an integer (task.id.toString()).
toString(n) == IF n < 0 THEN <<"-">> \o NatToString(0 - n) ELSE NatToString(n)

RECURSIVE SkipWhiteSpace(_)
SkipWhiteSpace(s) ==
  IF s # <<>> /\ IsWhiteSpace(Head(s)) THEN SkipWhiteSpace(Tail(s)) ELSE s

RECURSIVE DigitPrefix(_)
DigitPrefix(s) ==
  IF s # <<>> /\ Head(s) \in DigitChars
  THEN <<Head(s)>> \o DigitPrefix(Tail(s))
  ELSE <<>>

RECURSIVE DigitsValue(_)
DigitsValue(s) ==
  IF s = <<>> THEN 0
  ELSE DigitsValue(SubSeq(s, 1, Len(s) - 1)) * 10 + DigitVal(s[Len(s)])

\* parseInt(text, 10): leading white space is skipped, one sign is taken,
\* then the longest prefix of decimal digits; no digit at all gives NaN.
parseInt(s) ==
  LET t      == SkipWhiteSpace(s)
      signed == t # <<>> /\ Head(t) \in {"-", "+"}
      neg    == t # <<>> /\ Head(t) = "-"
      body   == IF signed THEN Tail(t) ELSE t
      digits == DigitPrefix(body)
  IN IF digits = <<>>
     THEN [nan |-> TRUE, val |-> 0]
     ELSE [nan |-> FALSE,
           val |-> IF neg THEN 0 - DigitsValue(digits) ELSE DigitsValue(digits)]

\* ------------------------------------------------------------- form data
\* FormData.get(k) is a string, a File, or null when the field is absent.
Null == [kind |-> "null", text |-> <<>>]
File == [kind |-> "file", text |-> <<>>]
Str(t) == [kind |-> "string", text |-> t]

typeofString(v) == v.kind = "string"

\* The literals the `action` field is compared with.
ADD == <<"a", "d", "d">>
UPDATE == <<"u", "p", "d", "a", "t", "e">>
DONE == <<"d", "o", "n", "e">>
UNDONE == <<"u", "n", "d", "o", "n", "e">>
DELETE == <<"d", "e", "l", "e", "t", "e">>

FormData(a, i, n) == [action |-> a, id |-> i, name |-> n]

\* ------------------------------------------------------------ validation
NoError == "none"
ErrIdString == "id must be string"
ErrIdNumeric == "id must be numeric string"
ErrNameString == "name must be string"
ErrNameLength == "name must be at least 1 characters"
ErrUnknownAction == "unknown action"
ErrNotFound == "NotFoundError"

Thrown(msg) == [error |-> msg, value |-> 0]
Returned(v) == [error |-> NoError, value |-> v]

validateId(fd) ==
  LET id == fd.id
  IN IF ~typeofString(id) THEN Thrown(ErrIdString)
     ELSE LET intValue == parseInt(id.text)
          IN IF intValue.nan THEN Thrown(ErrIdNumeric)
             ELSE Returned(intValue.val)

\* validateName with `< 0` for `<= 0`.
validateNameOffByOne(fd) ==
  LET name == fd.name
  IN IF ~typeofString(name) THEN Thrown(ErrNameString)
     ELSE IF Len(name.text) < 0 THEN Thrown(ErrNameLength)
     ELSE Returned(name.text)

validateName(fd) ==
  LET name == fd.name
  IN IF ~typeofString(name) THEN Thrown(ErrNameString)
     ELSE IF Len(name.text) <= 0 THEN Thrown(ErrNameLength)
     ELSE Returned(name.text)

\* ----------------------------------------------------------------- store
\* The task table behind prisma.task: rows keyed by id, and the next value
\* of the autoincrement id.
EmptyDb == [rows |-> [i \in {} |-> [name |-> <<>>, done |-> FALSE]], nextId |-> 1]

Ids(db) == DOMAIN db.rows

\* prisma.task.findMany()
findMany(db) == db.rows

\* prisma.task.create({data})
prismaCreate(db, data) ==
  [db    |-> [rows   |-> [i \in Ids(db) \cup {db.nextId} |->
                            IF i = db.nextId THEN data ELSE db.rows[i]],
              nextId |-> db.nextId + 1],
   error |-> NoError,
   call  |-> [op |-> "create", id |-> db.nextId]]

\* prisma.task.update({where: {id}, data: {field: value}})
prismaUpdate(db, id, field, value) ==
  IF id \notin Ids(db)
  THEN [db |-> db, error |-> ErrNotFound, call |-> [op |-> "update", id |-> id]]
  ELSE [db    |-> [db EXCEPT !.rows[id][field] = value],
        error |-> NoError,
        call  |-> [op |-> "update", id |-> id]]

\* prisma.task.delete({where: {id}})
prismaDelete(db, id) ==
  IF id \notin Ids(db)
  THEN [db |-> db, error |-> ErrNotFound, call |-> [op |-> "delete", id |-> id]]
  ELSE [db    |-> [db EXCEPT !.rows = [i \in Ids(db) \ {id} |-> db.rows[i]]],
        error |-> NoError,
        call  |-> [op |-> "delete", id |-> id]]

\* ------------------------------------------------------------ dispatcher
\* Outcome of one run of `action`: the table afterwards, the error thrown
\* (NoError when it returned null) and the store operations it issued.
Rejected(db, msg) == [db |-> db, error |-> msg, calls |-> <<>>]
\* A store call that is issued again when it fails.
AwaitedWithRetry(r) ==
  [db |-> r.db, error |-> r.error,
   calls |-> IF r.error # NoError THEN <<r.call, r.call>> ELSE <<r.call>>]

Awaited(r) == [db |-> r.db, error |-> r.error, calls |-> <<r.call>>]

\* `add` that creates the task before looking at the name.
actionAddUnchecked(fd, db) ==
  Awaited(prismaCreate(db, [name |-> fd.name.text, done |-> FALSE]))

\* `add` that creates the task already done.
actionAddDone(fd, db) ==
  LET name == validateName(fd)
  IN IF name.error # NoError THEN Rejected(db, name.error)
     ELSE Awaited(prismaCreate(db, [name |-> name.value, done |-> TRUE]))

actionAdd(fd, db) ==
  LET name == validateName(fd)
  IN IF name.error # NoError THEN Rejected(db, name.error)
     ELSE Awaited(prismaCreate(db, [name |-> name.value, done |-> FALSE]))

\* `update` that writes a whole task, done included.
actionUpdateResetsDone(fd, db) ==
  LET name == validateName(fd)
  IN IF name.error # NoError THEN Rejected(db, name.error)
     ELSE LET id == validateId(fd)
          IN IF id.error # NoError THEN Rejected(db, id.error)
             ELSE LET r == prismaUpdate(db, id.value, "name", name.value)
                  IN Awaited(IF r.error # NoError THEN r
                             ELSE prismaUpdate(r.db, id.value, "done", FALSE))

\* The argument object is built left to right: data.name before where.id.
actionUpdate(fd, db) ==
  LET name == validateName(fd)
  IN IF name.error # NoError THEN Rejected(db, name.error)
     ELSE LET id == validateId(fd)
          IN IF id.error # NoError THEN Rejected(db, id.error)
             ELSE Awaited(prismaUpdate(db, id.value, "name", name.value))

\* `done`/`undone` that writes true whichever literal was received.
actionDoneAlwaysTrue(fd, db) ==
  LET id == validateId(fd)
  IN IF id.error # NoError THEN Rejected(db, id.error)
     ELSE Awaited(prismaUpdate(db, id.value, "done", TRUE))

actionDone(fd, db) ==
  LET id == validateId(fd)
  IN IF id.error # NoError THEN Rejected(db, id.error)
     ELSE Awaited(prismaUpdate(db, id.value, "done", fd.action = Str(DONE)))

\* `delete` through deleteMany, which does not fail on a missing row.
actionDeleteMany(fd, db) ==
  LET id == validateId(fd)
  IN IF id.error # NoError THEN Rejected(db, id.error)
     ELSE LET r == prismaDelete(db, id.value)
          IN [db |-> r.db, error |-> NoError, calls |-> <<r.call>>]

actionDelete(fd, db) ==
  LET id == validateId(fd)
  IN IF id.error # NoError THEN Rejected(db, id.error)
     ELSE Awaited(prismaDelete(db, id.value))

\* `action` whose switch has no default branch and runs into `delete`.
actionFallsThrough(fd, db) ==
  CASE fd.action = Str(ADD) -> actionAdd(fd, db)
    [] fd.action = Str(UPDATE) -> actionUpdate(fd, db)
    [] fd.action \in {Str(DONE), Str(UNDONE)} -> actionDone(fd, db)
    [] OTHER -> actionDelete(fd, db)

action(fd, db) ==
  CASE fd.action = Str(ADD) -> actionAdd(fd, db)
    [] fd.action = Str(UPDATE) -> actionUpdate(fd, db)
    [] fd.action \in {Str(DONE), Str(UNDONE)} -> actionDone(fd, db)
    [] fd.action = Str(DELETE) -> actionDelete(fd, db)
    [] OTHER -> Rejected(db, ErrUnknownAction)

\* ----------------------------------------------------------------- state
VARIABLES
  db,         \* the task table (rows and next autoincrement id)
  deleted,    \* ids removed from the table by a delete so far
  request,    \* the form data of the request `action` served last
  before,     \* the table and the deleted ids just before that request
  outcome,    \* what `action` did with it: error thrown, store calls issued
  tasks,      \* useLoaderData(): the list the page displays
  editingId,  \* useState<number | null> of Index
  fetchers,   \* useFetcher() of each mounted TaskItem, by task id
  addFetcher, \* useFetcher() of AddTaskForm
  submits,    \* how many forms the two sessions have posted so far
  clicked     \* the click on a name column or a Cancel button handled in the
              \* last step, if any

vars == <<db, deleted, request, before, outcome, tasks, editingId, fetchers,
          addFetcher, submits, clicked>>

serverVars == <<request, before, outcome>>
clientVars == <<tasks, editingId, fetchers, addFetcher, submits>>

\* ---------------------------------------------------------------- inputs
IdDigits == {toString(i)[1] : i \in 1..MaxTasks}
IdChars == IdDigits \cup {"a", "-", " "}
NameChars == {"x", " "}

IdTexts == SeqsUpTo(IdChars, MaxIdLen)
NameTexts == SeqsUpTo(NameChars, MaxNameLen)
BOGUS == <<"b", "o", "g", "u", "s">>

Values(texts) == {Null, File} \cup {Str(t) : t \in texts}

\* The field maps the validation helpers are applied to.
FieldMaps ==
  {FormData(Null, i, n) : i \in Values(IdTexts), n \in Values(NameTexts)}

\* What the endpoint is posted.  Ids: those the table can hold, one more,
\* and texts that are not a plain numeral.  Names: empty, plain, blank.
RequestIdTexts ==
  {toString(i) : i \in 1..(MaxTasks + 1)}
  \cup {<<>>, <<"a">>, <<"1", "a">>, <<"a", "1">>, <<"-", "1">>, <<" ", "1">>}

RequestNameTexts == {<<>>, <<"y">>, <<" ">>}

\* Every form a client of the endpoint posts: each action with every value
\* of the fields it reads, and with and without the field it does not read.
Requests ==
  {FormData(Str(ADD), i, n) :
     i \in {Null, Str(<<"1">>)}, n \in Values(RequestNameTexts)}
  \cup {FormData(Str(UPDATE), i, n) :
          i \in Values(RequestIdTexts), n \in Values(RequestNameTexts)}
  \cup {FormData(Str(a), i, n) :
          a \in {DONE, UNDONE, DELETE}, i \in Values(RequestIdTexts),
          n \in {Null, Str(<<"y">>)}}
  \cup {FormData(a, i, n) :
          a \in {Null, File, Str(BOGUS), Str(<<>>)}, i \in {Null, Str(<<"1">>)},
          n \in {Null, Str(<<"y">>)}}

\* The names typed into the page's name inputs.
TypedNames == {<<"y">>}

\* The forms the page posts (lines 128-134, 144-181, 187-198, 216-229).
PageForms ==
  {FormData(Str(ADD), Null, Str(n)) : n \in TypedNames}
  \cup {FormData(Str(UPDATE), Str(toString(i)), Str(n)) :
          i \in 1..MaxTasks, n \in TypedNames}
  \cup {FormData(Str(a), Str(toString(i)), Null) :
          a \in {DONE, UNDONE, DELETE}, i \in 1..MaxTasks}

\* The table is kept within MaxTasks rows ever created.
WithinBound(fd) == action(fd, db).db.nextId <= MaxTasks + 1

\* --------------------------------------------------------------- fetcher
\* An optional value is a sequence of length at most one: <<>> is
\* undefined / null.
IdleFetcher ==
  [state |-> "idle", submission |-> <<>>, error |-> NoError, requests |-> 0]

\* fetcher.submit(fd) and the submit of a fetcher.Form
submit(f, fd) ==
  [state |-> "submitting", submission |-> <<fd>>, error |-> NoError,
   requests |-> f.requests + 1]

isPending(f) == f.submission # <<>>

isEditing(i) == editingId = <<i>>

\* onStartEditing that only takes the editing id when nobody holds it.
onStartEditingIfFree(id) == IF editingId = <<>> THEN <<id>> ELSE editingId

onStartEditing(id) == <<id>>

onFinishEditing(id) == <<>>

\* A click on the name column of row i, with the editing id it found.
Click(i) == <<[on |-> "name", id |-> i, editing |-> editingId]>>

CancelClick(i) == <<[on |-> "cancel", id |-> i, editing |-> editingId]>>

\* ------------------------------------------------------------------ Init
\* The table holds the tasks created so far when the page is first loaded;
\* every TaskItem mounts with an idle fetcher and its effect leaves
\* editingId null.
Created(k) ==
  [rows   |-> [i \in 1..k |-> [name |-> <<"x">>, done |-> FALSE]],
   nextId |-> k + 1]

Init ==
  /\ db \in {Created(k) : k \in 0..MaxTasks}
  /\ deleted = {}
  /\ request = <<>>
  /\ before = [db |-> db, deleted |-> {}]
  /\ outcome = <<>>
  /\ tasks = findMany(db)
  /\ editingId = <<>>
  /\ fetchers = [i \in DOMAIN findMany(db) |-> IdleFetcher]
  /\ addFetcher = IdleFetcher
  /\ submits = 0
  /\ clicked = <<>>

\* ------------------------------------------------- the endpoint by itself
\* One POST served by `action`, from any client of the endpoint.
Dispatch(fd) ==
  /\ WithinBound(fd)
  /\ LET r == action(fd, db)
     IN /\ db' = r.db
        /\ deleted' = deleted \cup (Ids(db) \ Ids(r.db))
        /\ outcome' = <<[error |-> r.error, calls |-> r.calls]>>
  /\ request' = <<fd>>
  /\ before' = [db |-> db, deleted |-> deleted]
  /\ clicked' = <<>>
  /\ UNCHANGED clientVars

\* The endpoint serves one request at a time and returns.
Post == request = <<>> /\ \E fd \in Requests : Dispatch(fd)

Return ==
  /\ request # <<>>
  /\ request' = <<>>
  /\ outcome' = <<>>
  /\ before' = [db |-> db, deleted |-> deleted]
  /\ clicked' = <<>>
  /\ UNCHANGED <<db, deleted, clientVars>>

NextAction ==
  \/ Post
  \/ Return

SpecAction == Init /\ [][NextAction]_vars

\* One session posting the page's forms one after the other.
NextSession == \E fd \in PageForms : Dispatch(fd)

SpecSession == Init /\ [][NextSession]_vars

\* ------------------------------------------- the validation helpers alone
\* A field map arrives, each helper is applied to it, and it is dropped.
Receive(fd) ==
  /\ request = <<>>
  /\ request' = <<fd>>
  /\ outcome' = <<>>
  /\ clicked' = <<>>
  /\ UNCHANGED <<db, deleted, before, clientVars>>

ApplyValidateName ==
  /\ request # <<>>
  /\ outcome' = <<[of |-> "validateName", result |-> validateName(request[1])]>>
  /\ clicked' = <<>>
  /\ UNCHANGED <<db, deleted, request, before, clientVars>>

ApplyValidateId ==
  /\ request # <<>>
  /\ outcome' = <<[of |-> "validateId", result |-> validateId(request[1])]>>
  /\ clicked' = <<>>
  /\ UNCHANGED <<db, deleted, request, before, clientVars>>

Drop ==
  /\ outcome # <<>>
  /\ request' = <<>>
  /\ outcome' = <<>>
  /\ clicked' = <<>>
  /\ UNCHANGED <<db, deleted, before, clientVars>>

NextValidate ==
  \/ \E fd \in FieldMaps : Receive(fd)
  \/ ApplyValidateName
  \/ ApplyValidateId
  \/ Drop

SpecValidate == Init /\ [][NextValidate]_vars

\* ---------------------------------------------------------------- the page
\* What the commit of a render does to the client state: `shown` is the
\* loader data rendered, `resolved` the row (if any) whose fetcher went back
\* to idle in this render.  Rows no longer listed unmount and lose their
\* fetcher; new rows mount with an idle fetcher.  The effect of lines
\* 108-112 runs for every row that mounts and for every row whose isPending
\* changed, and calls onFinishEditing when the row is not pending.
Mounted(shown) == DOMAIN shown \ DOMAIN tasks

\* A page with one pending flag for the whole list: every row is idle again
\* once any mutation resolves.
RenderedAllIdle(shown, resolved) == [i \in DOMAIN shown |-> IdleFetcher]

Rendered(shown, resolved) ==
  [i \in DOMAIN shown |->
     IF i \in DOMAIN tasks /\ <<i>> # resolved THEN fetchers[i] ELSE IdleFetcher]

\* An effect without isPending among its dependencies: it runs on mount only.
EffectRunsOnMount(shown, resolved) == Mounted(shown)

EffectRuns(shown, resolved) ==
  {i \in DOMAIN shown : i \in Mounted(shown) \/ <<i>> = resolved}

Commit(shown, resolved) ==
  /\ tasks' = shown
  /\ fetchers' = Rendered(shown, resolved)
  /\ editingId' =
       IF \E i \in EffectRuns(shown, resolved) : ~isPending(Rendered(shown, resolved)[i])
       THEN onFinishEditing(CHOOSE i \in EffectRuns(shown, resolved) : TRUE)
       ELSE editingId

\* onClickText without the isPending test.
onClickTextWhilePending(i) == onStartEditing(i)

\* onClickText (lines 114-118), the onClick of the name column.
onClickText(i) ==
  IF ~isPending(fetchers[i]) THEN onStartEditing(i) ELSE editingId

ClickText(i) ==
  /\ i \in DOMAIN tasks
  /\ editingId' = onClickText(i)
  /\ clicked' = Click(i)
  /\ UNCHANGED <<db, deleted, serverVars, tasks, fetchers, addFetcher, submits>>

\* A Cancel handler without stopPropagation: the click bubbles to the name
\* column, whose handler runs after it.
cancelOnClickBubbles(i) == onClickText(i)

\* The onClick of the Cancel button (lines 161-164): stopPropagation keeps
\* the click from the name column.
cancelOnClick(i) == onFinishEditing(i)

\* The Cancel button (lines 158-167): rendered while editing, disabled while
\* pending.
Cancel(i) ==
  /\ i \in DOMAIN tasks
  /\ isEditing(i)
  /\ ~isPending(fetchers[i])
  /\ editingId' = cancelOnClick(i)
  /\ clicked' = CancelClick(i)
  /\ UNCHANGED <<db, deleted, serverVars, tasks, fetchers, addFetcher, submits>>

\* A checkbox without `disabled`.
ToggleAlwaysEnabled(i) == TRUE

\* The checkbox (lines 124-137), disabled while pending.
ToggleEnabled(i) == ~isPending(fetchers[i])

\* A checkbox that submits the state the task already has.
toggleFormSame(i) ==
  FormData(Str(IF tasks[i].done THEN DONE ELSE UNDONE), Str(toString(i)), Null)

\* The form the checkbox submits (lines 129-132).
toggleForm(i) ==
  FormData(Str(IF tasks[i].done THEN UNDONE ELSE DONE), Str(toString(i)), Null)

Toggle(i) ==
  /\ i \in DOMAIN tasks
  /\ ToggleEnabled(i)
  /\ fetchers' = [fetchers EXCEPT ![i] = submit(@, toggleForm(i))]
  /\ submits < MaxSubmits
  /\ submits' = submits + 1
  /\ clicked' = <<>>
  /\ UNCHANGED <<db, deleted, serverVars, tasks, editingId, addFetcher>>

\* The Update button of the edit form (lines 144-181): rendered while
\* editing, disabled while pending; the name input is `required`.  The click
\* bubbles to the name column before the form is submitted.
UpdateEnabled(i) == isEditing(i) /\ ~isPending(fetchers[i])

Update(i, name) ==
  /\ i \in DOMAIN tasks
  /\ UpdateEnabled(i)
  /\ editingId' = onClickText(i)
  /\ fetchers' = [fetchers EXCEPT ![i] =
       submit(@, FormData(Str(UPDATE), Str(toString(i)), Str(name)))]
  /\ submits < MaxSubmits
  /\ submits' = submits + 1
  /\ clicked' = <<>>
  /\ UNCHANGED <<db, deleted, serverVars, tasks, addFetcher>>

\* The Delete button (lines 187-198), disabled while pending.
DeleteEnabled(i) == ~isPending(fetchers[i])

Delete(i) ==
  /\ i \in DOMAIN tasks
  /\ DeleteEnabled(i)
  /\ fetchers' = [fetchers EXCEPT ![i] =
       submit(@, FormData(Str(DELETE), Str(toString(i)), Null))]
  /\ submits < MaxSubmits
  /\ submits' = submits + 1
  /\ clicked' = <<>>
  /\ UNCHANGED <<db, deleted, serverVars, tasks, editingId, addFetcher>>

\* The Add Task button (lines 216-229), disabled while pending; the name
\* input is `required`.
\* An Add Task button without `disabled`.
AddAlwaysEnabled == TRUE

AddEnabled == ~isPending(addFetcher)

Add(name) ==
  /\ AddEnabled
  /\ WithinBound(FormData(Str(ADD), Null, Str(name)))
  /\ addFetcher' = submit(addFetcher, FormData(Str(ADD), Null, Str(name)))
  /\ submits < MaxSubmits
  /\ submits' = submits + 1
  /\ clicked' = <<>>
  /\ UNCHANGED <<db, deleted, serverVars, tasks, editingId, fetchers>>

\* The server runs `action` on the request a fetcher posted.
Served(f, r) == [f EXCEPT !.state = "loading", !.error = r.error]

Serve(i) ==
  /\ i \in DOMAIN tasks
  /\ fetchers[i].state = "submitting"
  /\ LET r == action(fetchers[i].submission[1], db)
     IN /\ db' = r.db
        /\ deleted' = deleted \cup (Ids(db) \ Ids(r.db))
        /\ fetchers' = [fetchers EXCEPT ![i] = Served(@, r)]
  /\ clicked' = <<>>
  /\ UNCHANGED <<serverVars, tasks, editingId, addFetcher, submits>>

ServeAdd ==
  /\ addFetcher.state = "submitting"
  /\ LET r == action(addFetcher.submission[1], db)
     IN /\ db' = r.db
        /\ deleted' = deleted \cup (Ids(db) \ Ids(r.db))
        /\ addFetcher' = Served(addFetcher, r)
  /\ clicked' = <<>>
  /\ UNCHANGED <<serverVars, tasks, editingId, fetchers, submits>>

\* The response reaches the page.  After a successful action the loader is
\* read again and the list re-rendered; after a failed one the fetcher only
\* goes back to idle.
Resolve(i) ==
  /\ i \in DOMAIN tasks
  /\ fetchers[i].state = "loading"
  /\ IF fetchers[i].error = NoError
     THEN Commit(findMany(db), <<i>>)
     ELSE Commit(tasks, <<i>>)
  /\ clicked' = <<>>
  /\ UNCHANGED <<db, deleted, serverVars, addFetcher, submits>>

ResolveAdd ==
  /\ addFetcher.state = "loading"
  /\ addFetcher' = IdleFetcher
  /\ IF addFetcher.error = NoError
     THEN Commit(findMany(db), <<>>)
     ELSE Commit(tasks, <<>>)
  /\ clicked' = <<>>
  /\ UNCHANGED <<db, deleted, serverVars, submits>>

\* A second browser session deletes a task it shows.
OtherSession(i) ==
  /\ i \in Ids(db)
  /\ LET r == action(FormData(Str(DELETE), Str(toString(i)), Null), db)
     IN /\ db' = r.db
        /\ deleted' = deleted \cup (Ids(db) \ Ids(r.db))
  /\ submits < MaxSubmits
  /\ submits' = submits + 1
  /\ clicked' = <<>>
  /\ UNCHANGED <<serverVars, tasks, editingId, fetchers, addFetcher>>

Next ==
  \/ \E i \in 1..MaxTasks : ClickText(i)
  \/ \E i \in 1..MaxTasks : Cancel(i)
  \/ \E i \in 1..MaxTasks : Toggle(i)
  \/ \E i \in 1..MaxTasks, name \in TypedNames : Update(i, name)
  \/ \E i \in 1..MaxTasks : Delete(i)
  \/ \E name \in TypedNames : Add(name)
  \/ \E i \in 1..MaxTasks : Serve(i)
  \/ ServeAdd
  \/ \E i \in 1..MaxTasks : Resolve(i)
  \/ ResolveAdd
  \/ \E i \in 1..MaxTasks : OtherSession(i)

Spec == Init /\ [][Next]_vars

\* The page with a store that answers every request and a framework that
\* finishes every reload.  No request stays unanswered for ever: Serve is
\* enabled exactly while the request is posted and is the only step that
\* answers it, so this is weak fairness of Serve(i) and of ServeAdd.  A
\* served mutation is eventually resolved.
Unanswered(i) == i \in DOMAIN tasks /\ fetchers[i].state = "submitting"

Answered ==
  /\ \A i \in 1..MaxTasks : []<>~Unanswered(i)
  /\ []<>(addFetcher.state # "submitting")
  /\ \A i \in 1..MaxTasks : WF_vars(Resolve(i))
  /\ WF_vars(ResolveAdd)

SpecAnswered == Spec /\ Answered

\* ================================================================ claims
Recognised == {Str(ADD), Str(UPDATE), Str(DONE), Str(UNDONE), Str(DELETE)}

\* The fields each branch of the switch requires.
Required(fd) ==
  CASE fd.action = Str(ADD) -> {"name"}
    [] fd.action = Str(UPDATE) -> {"id", "name"}
    [] fd.action \in {Str(DONE), Str(UNDONE), Str(DELETE)} -> {"id"}
    [] OTHER -> {}

\* The validation failures of the required fields of a form.
Failures(fd) ==
  ({validateId(fd).error : k \in Required(fd) \cap {"id"}}
   \cup {validateName(fd).error : k \in Required(fd) \cap {"name"}}) \ {NoError}

Accepted(fd) == fd.action \in Recognised /\ Failures(fd) = {}

EditingRows == {i \in DOMAIN tasks : isEditing(i)}

\* ---------------------------------------------------------------- C1
\* C1 as stated: at most one row is editing at any time, and whenever the
\* name area of a row a is clicked while another row b is Editing, a is
\* Editing afterwards and b is not.
C1_AnyClickTakesOver ==
  /\ [](Cardinality(EditingRows) <= 1)
  /\ [][\A a \in DOMAIN tasks, b \in DOMAIN tasks :
          (a # b /\ isEditing(b) /\ clicked' = Click(a))
          => (editingId' = <<a>> /\ EditingRows' = {a})]_vars

\* C1 amended: at most one row is editing at any time, and whenever the
\* name area of a row a that is not Pending is clicked while another row b
\* is Editing, a is Editing afterwards and b is not.
C1_ClickTakesOver ==
  /\ [](Cardinality(EditingRows) <= 1)
  /\ [][\A a \in DOMAIN tasks, b \in DOMAIN tasks :
          (a # b /\ isEditing(b) /\ ~isPending(fetchers[a])
           /\ clicked' = Click(a))
          => (editingId' = <<a>> /\ EditingRows' = {a})]_vars

\* Row a was clicked while another listed row was Editing, and a is Editing.
C1_Witness ==
  /\ clicked # <<>>
  /\ clicked[1].editing # <<>>
  /\ clicked[1].editing # <<clicked[1].id>>
  /\ clicked[1].editing[1] \in DOMAIN tasks
  /\ EditingRows = {clicked[1].id}

\* ---------------------------------------------------------------- C2
\* C2: no step is a toggle, update or delete of a row that is Pending, and
\* no step gives a Pending row another submission or another request; so a
\* row never has more than one mutation in flight.
C2_OneMutationPerRow ==
  /\ [](\A i \in DOMAIN fetchers : fetchers[i].requests <= 1)
  /\ [][\A i \in DOMAIN fetchers :
          isPending(fetchers[i])
          => /\ ~(Toggle(i) \/ Delete(i) \/ \E n \in TypedNames : Update(i, n))
             /\ i \in DOMAIN fetchers'
                => /\ fetchers'[i].requests <= fetchers[i].requests
                   /\ fetchers'[i].submission \in {<<>>, fetchers[i].submission}]_vars

\* A row whose mutation has been served and not yet resolved is clicked.
C2_Witness ==
  \E i \in DOMAIN fetchers :
    /\ isPending(fetchers[i])
    /\ fetchers[i].state = "loading"
    /\ fetchers[i].requests = 1
    /\ clicked # <<>>
    /\ clicked[1].id = i

\* ---------------------------------------------------------------- C3
\* C3: a request with a recognised action whose required id or name fails
\* validation leaves the table as it was, issues no store call, and fails
\* with that validation error.
C3_ValidationFailureTouchesNothing ==
  \A k \in DOMAIN request :
    (request[k].action \in Recognised /\ Failures(request[k]) # {})
    => /\ db = before.db
       /\ outcome[k].calls = <<>>
       /\ outcome[k].error \in Failures(request[k])

\* An update of a listed task with a good name and a bad id was rejected.
C3_Witness ==
  /\ request # <<>>
  /\ request[1].action = Str(UPDATE)
  /\ validateName(request[1]).error = NoError
  /\ outcome[1].error = ErrIdNumeric
  /\ Ids(db) # {}

\* ---------------------------------------------------------------- C4
\* C4: a request whose action is missing or is not one of add, update,
\* done, undone, delete fails with "unknown action" and issues no store
\* call, whatever its other fields are.
C4_UnknownActionTouchesNothing ==
  \A k \in DOMAIN request :
    request[k].action \notin Recognised
    => /\ outcome[k].error = ErrUnknownAction
       /\ outcome[k].calls = <<>>
       /\ db = before.db

\* A request without a recognised action but with the id of a stored task
\* and a good name was rejected.
C4_Witness ==
  /\ request # <<>>
  /\ request[1].action \notin Recognised
  /\ validateName(request[1]).error = NoError
  /\ validateId(request[1]).error = NoError
  /\ validateId(request[1]).value \in Ids(db)
  /\ outcome[1].error = ErrUnknownAction

\* ---------------------------------------------------------------- C5
StoreOp(fd) ==
  CASE fd.action = Str(ADD) -> "create"
    [] fd.action = Str(DELETE) -> "delete"
    [] OTHER -> "update"

\* C5: a request with a recognised action that passes validation issues
\* exactly one store operation, of the kind its action names, also when the
\* store fails.
C5_ExactlyOneStoreCall ==
  \A k \in DOMAIN request :
    Accepted(request[k])
    => /\ Len(outcome[k].calls) = 1
       /\ outcome[k].calls[1].op = StoreOp(request[k])

\* A validated request that the store failed with NotFoundError.
C5_Witness ==
  /\ request # <<>>
  /\ Accepted(request[1])
  /\ outcome[1].error = ErrNotFound
  /\ Len(outcome[1].calls) = 1

\* ---------------------------------------------------------------- C6
\* C6: add with a valid name n succeeds and adds exactly one task, with
\* done = false, name = n and an id no existing task has; the tasks that
\* existed are unchanged and findMany lists the new one.
C6_AddCreatesOneTask ==
  \A k \in DOMAIN request :
    (request[k].action = Str(ADD) /\ validateName(request[k]).error = NoError)
    => /\ outcome[k].error = NoError
       /\ \E new \in Ids(db) \ Ids(before.db) :
            /\ Ids(db) = Ids(before.db) \cup {new}
            /\ db.rows[new].done = FALSE
            /\ db.rows[new].name = request[k].name.text
            /\ findMany(db)[new] = db.rows[new]
       /\ \A i \in Ids(before.db) : db.rows[i] = before.db.rows[i]

\* A task whose name is a blank was added to a table that had a task.
C6_Witness ==
  /\ request # <<>>
  /\ request[1].action = Str(ADD)
  /\ request[1].name = Str(<<" ">>)
  /\ outcome[1].error = NoError
  /\ Ids(before.db) # {}
  /\ Cardinality(Ids(db)) = Cardinality(Ids(before.db)) + 1

\* ---------------------------------------------------------------- C7
DoneForm(i) == FormData(Str(DONE), Str(toString(i)), Null)
UndoneForm(i) == FormData(Str(UNDONE), Str(toString(i)), Null)

\* C7: done and then undone for an existing task leaves its name, sets its
\* done to false and leaves every other task as it was before the two; and
\* a done or undone of an existing task changes nothing but that task's
\* done, to true for done and to false for undone.
C7_DoneThenUndone ==
  /\ [](\A k \in DOMAIN request : \A i \in Ids(before.db) :
          request[k] \in {DoneForm(i), UndoneForm(i)}
          => /\ outcome[k].error = NoError
             /\ db = [before.db EXCEPT !.rows[i].done = (request[k] = DoneForm(i))])
  /\ [][\A i \in Ids(before.db) :
          (request = <<DoneForm(i)>> /\ request' = <<UndoneForm(i)>>)
          => /\ outcome'[1].error = NoError
             /\ Ids(db') = Ids(before.db)
             /\ db'.rows[i].name = before.db.rows[i].name
             /\ db'.rows[i].done = FALSE
             /\ \A j \in Ids(before.db) \ {i} : db'.rows[j] = before.db.rows[j]]_vars

\* An undone was served for a task that was done, next to another task.
C7_Witness ==
  /\ request # <<>>
  /\ \E i \in Ids(db) :
       /\ request[1] = UndoneForm(i)
       /\ before.db.rows[i].done = TRUE
       /\ db.rows[i].done = FALSE
       /\ Ids(db) \ {i} # {}

\* ---------------------------------------------------------------- C8
\* C8: update with a valid id of an existing task and a valid name succeeds
\* and changes that task's name only: its id and done, and every other
\* task, are as before.
C8_UpdateReplacesNameOnly ==
  \A k \in DOMAIN request :
    (/\ request[k].action = Str(UPDATE)
     /\ Failures(request[k]) = {}
     /\ validateId(request[k]).value \in Ids(before.db))
    => /\ outcome[k].error = NoError
       /\ db = [before.db EXCEPT
                  !.rows[validateId(request[k]).value].name = request[k].name.text]

\* A done task was renamed, next to another task.
C8_Witness ==
  /\ request # <<>>
  /\ request[1].action = Str(UPDATE)
  /\ outcome[1].error = NoError
  /\ \E i \in Ids(db) :
       /\ i = validateId(request[1]).value
       /\ db.rows[i].done = TRUE
       /\ db.rows[i].name # before.db.rows[i].name
       /\ Ids(db) \ {i} # {}

\* ---------------------------------------------------------------- C9
\* C9: delete with the id of an existing task succeeds and removes that
\* task and no other; an update, done, undone or delete that passes
\* validation and names an id a delete has removed fails with
\* NotFoundError and leaves the table as it was.
C9_DeleteThenNotFound ==
  \A k \in DOMAIN request :
    LET fd == request[k]
        id == validateId(fd).value
    IN /\ (fd.action = Str(DELETE) /\ Failures(fd) = {} /\ id \in Ids(before.db))
          => /\ outcome[k].error = NoError
             /\ db.nextId = before.db.nextId
             /\ db.rows = [i \in Ids(before.db) \ {id} |-> before.db.rows[i]]
       /\ (/\ fd.action \in {Str(UPDATE), Str(DONE), Str(UNDONE), Str(DELETE)}
           /\ Failures(fd) = {}
           /\ id \in before.deleted)
          => /\ outcome[k].error = ErrNotFound
             /\ db = before.db

\* An update named an id that a delete had removed.
C9_Witness ==
  /\ request # <<>>
  /\ request[1].action = Str(UPDATE)
  /\ Failures(request[1]) = {}
  /\ validateId(request[1]).value \in before.deleted
  /\ outcome[1].error = ErrNotFound

\* --------------------------------------------------------------- C10
Applied(f) == {k \in DOMAIN outcome : outcome[k].of = f}

\* C10 as stated: validateName fails with "name must be at least 1
\* characters" when name is missing or empty, with "name must be string"
\* when name is present and not text, and returns a non-empty text as it is.
C10_MissingNameIsTooShort ==
  \A k \in Applied("validateName") :
    LET name == request[k].name
        r    == outcome[k].result
    IN /\ (name = Null \/ name = Str(<<>>)) => r.error = ErrNameLength
       /\ name = File => r.error = ErrNameString
       /\ (typeofString(name) /\ name.text # <<>>)
          => (r.error = NoError /\ r.value = name.text)

\* C10 amended: validateName fails with "name must be string" when name is
\* missing or is not text, with "name must be at least 1 characters" when
\* name is the empty text, and returns a non-empty text as it is.
C10_ValidateName ==
  \A k \in Applied("validateName") :
    LET name == request[k].name
        r    == outcome[k].result
    IN /\ (name = Null \/ name = File) => r.error = ErrNameString
       /\ name = Str(<<>>) => r.error = ErrNameLength
       /\ (typeofString(name) /\ name.text # <<>>)
          => (r.error = NoError /\ r.value = name.text)

\* validateName was applied to a field map without a name.
C10_Witness ==
  /\ Applied("validateName") # {}
  /\ request[1].name = Null
  /\ outcome[1].result.error = ErrNameString

\* --------------------------------------------------------------- C11
\* A base-10 integer numeral: an optional sign and then digits only.
IsNumeral(t) ==
  LET body == IF t # <<>> /\ Head(t) \in {"-", "+"} THEN Tail(t) ELSE t
  IN body # <<>> /\ \A k \in DOMAIN body : body[k] \in DigitChars

NumeralValue(t) ==
  IF Head(t) = "-" THEN 0 - DigitsValue(Tail(t))
  ELSE IF Head(t) = "+" THEN DigitsValue(Tail(t))
  ELSE DigitsValue(t)

\* C11: validateId fails with "id must be numeric string" for every text id
\* that is not a base-10 integer numeral (text mixing digits with other
\* characters included), returns the integer for every text id that is one,
\* and fails with "id must be string" for a missing or non-text id.
C11_OnlyNumeralsAreIds ==
  \A k \in Applied("validateId") :
    LET id == request[k].id
        r  == outcome[k].result
    IN /\ ~typeofString(id) => r.error = ErrIdString
       /\ (typeofString(id) /\ ~IsNumeral(id.text)) => r.error = ErrIdNumeric
       /\ (typeofString(id) /\ IsNumeral(id.text))
          => (r.error = NoError /\ r.value = NumeralValue(id.text))

\* --------------------------------------------------------------- C12
\* C12: when the mutation of a row b resolves while a different row a is
\* Editing, and a is still listed afterwards, a is still Editing after the
\* resolution: the editing id is cleared only if b itself held Editing.
C12_ResolveClearsOwnEditingOnly ==
  [][\A a, b \in DOMAIN tasks :
       (a # b /\ isEditing(a) /\ Resolve(b) /\ a \in DOMAIN tasks')
         => editingId' = <<a>>]_vars

\* --------------------------------------------------------------- C13
Pending(i) == i \in DOMAIN tasks /\ isPending(fetchers[i])

\* C13: with a store that answers, every row that is Pending eventually is
\* not Pending; and a row that is Editing when its mutation resolves is not
\* Editing afterwards, whether the mutation succeeded or failed.
C13_PendingEndsAndEditingWithIt ==
  /\ \A i \in 1..MaxTasks : Pending(i) ~> ~Pending(i)
  /\ [][\A i \in DOMAIN tasks :
          (isEditing(i) /\ Resolve(i)) => i \notin EditingRows']_vars

\* A row that is Editing has had its mutation fail at the server and is
\* about to resolve.
C13_Witness ==
  \E i \in DOMAIN tasks :
    /\ isEditing(i)
    /\ fetchers[i].state = "loading"
    /\ fetchers[i].error # NoError

\* --------------------------------------------------------------- C14
\* C14: a row becomes Editing only in a step that handles a click on its
\* name area while it is not Pending; a click on the name area of a Pending
\* row leaves the editing id unchanged.
C14_EditingStartsByClickOnly ==
  [][/\ \A i \in DOMAIN tasks' :
          (i \in EditingRows' /\ i \notin EditingRows)
            => (i \in DOMAIN tasks /\ clicked' = Click(i) /\ ~isPending(fetchers[i]))
     /\ \A i \in DOMAIN tasks :
          (clicked' = Click(i) /\ isPending(fetchers[i]))
            => editingId' = editingId]_vars

\* The name area of a Pending row was clicked while another row was Editing,
\* and that other row is still the one Editing.
C14_Witness ==
  /\ clicked # <<>>
  /\ clicked[1].on = "name"
  /\ isPending(fetchers[clicked[1].id])
  /\ clicked[1].editing # <<>>
  /\ clicked[1].editing # <<clicked[1].id>>
  /\ editingId = clicked[1].editing

\* --------------------------------------------------------------- C15
\* C15: a click on Cancel on a row that is Editing and not Pending leaves no
\* row Editing and the editing id none (the click does not reach the name
\* column's handler, which would start editing again), submits no mutation,
\* leaves the row not Pending and leaves the store unchanged.
C15_CancelOnlyLeavesEditing ==
  [][\A i \in DOMAIN tasks :
       (clicked' = CancelClick(i) /\ isEditing(i) /\ ~isPending(fetchers[i]))
         => /\ editingId' = <<>>
            /\ EditingRows' = {}
            /\ fetchers' = fetchers
            /\ addFetcher' = addFetcher
            /\ submits' = submits
            /\ ~isPending(fetchers'[i])
            /\ db' = db
            /\ tasks' = tasks]_vars

\* Cancel was clicked on the row that was Editing, and no row is Editing.
C15_Witness ==
  /\ clicked # <<>>
  /\ clicked[1].on = "cancel"
  /\ clicked[1].editing = <<clicked[1].id>>
  /\ ~isPending(fetchers[clicked[1].id])
  /\ editingId = <<>>

\* --------------------------------------------------------------- C16
\* C16: toggling the checkbox of a row that is not Pending submits exactly
\* one mutation, from that row only, whose id parses back to the row's id
\* and whose action is "undone" when the row is displayed done and "done"
\* otherwise, and the row is Pending; when such a mutation resolves
\* successfully the stored done of the task is what the submitted action
\* asked for, the negation of the value displayed at toggle time.
C16_ToggleInvertsDone ==
  [][\A i \in DOMAIN tasks :
       /\ Toggle(i) =>
            /\ ~isPending(fetchers[i])
            /\ isPending(fetchers'[i])
            /\ fetchers'[i].requests = fetchers[i].requests + 1
            /\ validateId(fetchers'[i].submission[1]) = Returned(i)
            /\ fetchers'[i].submission[1].action
                 = Str(IF tasks[i].done THEN UNDONE ELSE DONE)
            /\ \A j \in DOMAIN tasks \ {i} : fetchers'[j] = fetchers[j]
            /\ addFetcher' = addFetcher
       /\ ( /\ Resolve(i)
            /\ fetchers[i].error = NoError
            /\ fetchers[i].submission[1].action \in {Str(DONE), Str(UNDONE)}
            /\ i \in Ids(db) )
          => db.rows[i].done = (fetchers[i].submission[1].action = Str(DONE))]_vars

\* A toggle has been served without error and is about to resolve: the
\* stored done is the negation of the value the row displays.
C16_Witness ==
  \E i \in DOMAIN tasks :
    /\ fetchers[i].state = "loading"
    /\ fetchers[i].error = NoError
    /\ fetchers[i].submission = <<toggleForm(i)>>
    /\ i \in Ids(db)
    /\ db.rows[i].done = ~tasks[i].done

\* --------------------------------------------------------------- C17
\* C17: two different rows can have a mutation in flight at the same time,
\* and when the mutation of one row resolves, every other row that is still
\* listed keeps its fetcher as it was: a Pending one stays Pending.
C17_RowsResolveIndependently ==
  [][\A i, j \in DOMAIN tasks :
       (i # j /\ Resolve(i) /\ j \in DOMAIN tasks')
         => /\ fetchers'[j] = fetchers[j]
            /\ isPending(fetchers'[j]) = isPending(fetchers[j])]_vars

\* Two rows are Pending at once, and the mutation of one is about to resolve.
C17_Witness ==
  \E i, j \in DOMAIN tasks :
    /\ i # j
    /\ fetchers[i].state = "loading"
    /\ isPending(fetchers[j])

\* --------------------------------------------------------------- C18
\* C18: the editing id changes only in a step that handles a click on a name
\* area or on Cancel, or that resolves a mutation; and when a row a is
\* Editing and a successful add resolves, rendering a new row for the first
\* time, a is still Editing afterwards.
C18_NewRowKeepsEditing ==
  [][/\ editingId' # editingId
          => \/ \E i \in DOMAIN tasks :
                  clicked' = Click(i) \/ clicked' = CancelClick(i) \/ Resolve(i)
             \/ ResolveAdd
     /\ \A a \in DOMAIN tasks :
          ( /\ isEditing(a)
            /\ ResolveAdd
            /\ addFetcher.error = NoError
            /\ Mounted(tasks') # {}
            /\ a \in DOMAIN tasks' )
          => editingId' = <<a>>]_vars

\* --------------------------------------------------------------- C19
InFlight == isPending(addFetcher) \/ \E i \in DOMAIN tasks : isPending(fetchers[i])

\* C19: whenever no mutation is in flight, the editing id is none or the id
\* of a task in the displayed list.
C19_EditingIdIsListed ==
  ~InFlight => (editingId = <<>> \/ editingId[1] \in DOMAIN tasks)

\* --------------------------------------------------------------- C20
\* C20: the add form has a pending state of its own.  While an add is in
\* flight no second add is submitted; submitting an add and answering it
\* change no row's fetcher, so no row becomes Pending through it; and while
\* an add is in flight every row that is not Pending can still be toggled,
\* deleted, clicked into Editing and, when Editing, updated.
C20_AddPendingIsItsOwn ==
  /\ [](addFetcher.requests <= 1)
  /\ [](\A i \in DOMAIN tasks :
          (isPending(addFetcher) /\ ~isPending(fetchers[i]) /\ submits < MaxSubmits)
            => /\ ENABLED Toggle(i)
               /\ ENABLED Delete(i)
               /\ ENABLED ClickText(i)
               /\ isEditing(i) => \A name \in TypedNames : ENABLED Update(i, name))
  /\ [][/\ (isPending(addFetcher) /\ isPending(addFetcher'))
             => addFetcher'.submission = addFetcher.submission
        /\ ((\E name \in TypedNames : Add(name)) \/ ServeAdd)
             => fetchers' = fetchers]_vars

\* An add and the mutation of a row are in flight at the same time, one
\* request each.
C20_Witness ==
  /\ isPending(addFetcher)
  /\ addFetcher.requests = 1
  /\ \E i \in DOMAIN tasks : isPending(fetchers[i]) /\ fetchers[i].requests = 1

====
